---- MODULE Spec2Model ----
(***************************************************************************)
(* A model of tiny-topdown-game: the viewport / visible-tile resolver      *)
(* (viewport.rs), the fixed-cadence update loop with the friction/clamp    *)
(* integrator and the animation clock (game.rs, movement_system.rs,        *)
(* animation_system.rs), the start menu (menu.rs), and the drawing of a    *)
(* frame: the map (map.rs), the tile atlas and the player sprite           *)
(* (game.rs).                                                              *)
(*                                                                         *)
(* Numbers.  i32 values are TLA+ integers (the model's bounds keep them    *)
(* far from the i32 range).  f32 values (Position, velocity) are exact     *)
(* decimal fixed-point numbers: the integer n stands for n / Unit.  Within *)
(* the model's bounds every product by 0.1 is exact (DecayExact below), so *)
(* the arithmetic is that of the reals; f32 rounding is not modelled.      *)
(* Durations are counted in clock ticks of 1 / TicksPerSecond seconds.     *)
(* u32 values (tile ids, tile sizes, atlas offsets) keep their width: they *)
(* are pairs of 16-bit halves, and their arithmetic is modulo 2^32.        *)
(***************************************************************************)
EXTENDS Integers, Sequences, FiniteSets, TLC

\* ------------------------------------------------------------------------
\* Program constants
\* ------------------------------------------------------------------------

WIDTH_PX == 960

HEIGHT_PX == 540

TL_PX == 32

\* ------------------------------------------------------------------------
\* Rust integer arithmetic: / truncates toward zero, % takes the sign of the
\* dividend (TLA+'s \div and % round toward minus infinity).
\* ------------------------------------------------------------------------

RustDiv(a, b) == IF a >= 0 THEN a \div b ELSE -((-a) \div b)

RustRem(a, b) == IF a >= 0 THEN a % b ELSE -((-a) % b)

\* ------------------------------------------------------------------------
\* Fixed-point stand-in for f32
\* ------------------------------------------------------------------------

Unit == 10^6

Abs(v) == IF v < 0 THEN -v ELSE v

\* f32::signum: 1.0 for positive numbers and +0.0, -1.0 for negative ones.
Signum(v) == IF v < 0 THEN -1 ELSE 1

\* f32::floor followed by `as i32`
FloorI32(v) == v \div Unit

\* ------------------------------------------------------------------------
\* viewport.rs
\* ------------------------------------------------------------------------

calculate_viewport(player_pos) ==
    << FloorI32(player_pos[1]) - RustDiv(WIDTH_PX, 2),
       FloorI32(player_pos[2]) - RustDiv(HEIGHT_PX, 2) >>

\* A variant of FitToTile: snapping by Rust's integer division, which
\* truncates toward zero.
FitByTruncation(v) == RustDiv(v, TL_PX) * TL_PX

\* "Fit viewport to next lowest tile divisor": while v % TL_PX != 0 { v -= 1 }
RECURSIVE FitToTile(_)
FitToTile(v) == IF RustRem(v, TL_PX) # 0 THEN FitToTile(v - 1) ELSE v

\* The overscan: the extra tiles added to the columns and to the rows.
ExtraTiles == 2

\* A variant of max_view_t: one extra tile, as the comment in the source says.
max_view_t_one_extra(view_t, size_px) == view_t + RustDiv(size_px, TL_PX) + 1

max_view_t(view_t, size_px) == view_t + RustDiv(size_px, TL_PX) + ExtraTiles

\* A variant of RowTiles: the tile's coordinates pushed as (ty, tx).
RECURSIVE RowTilesSwapped(_, _, _, _, _)
RowTilesSwapped(tx, max_tx, ty, screen_px, screen_py) ==
    IF tx >= max_tx THEN << >>
    ELSE << << ty, tx, ty * TL_PX, tx * TL_PX, screen_px, screen_py >> >>
         \o RowTilesSwapped(tx + 1, max_tx, ty, screen_px + TL_PX, screen_py)

\* The inner loop: for tx in tx..max_view_tx { push; screen_px += TL_PX }
RECURSIVE RowTiles(_, _, _, _, _)
RowTiles(tx, max_tx, ty, screen_px, screen_py) ==
    IF tx >= max_tx THEN << >>
    ELSE << << tx, ty, tx * TL_PX, ty * TL_PX, screen_px, screen_py >> >>
         \o RowTiles(tx + 1, max_tx, ty, screen_px + TL_PX, screen_py)

\* A variant of RowResetPx: the row restarts at the snapped origin's column.
RowResetSnapped(view_px, viewport_x) == 0

\* The value screen_px is reset to at the end of each row.
RowResetPx(view_px, viewport_x) == view_px - viewport_x

\* The outer loop: for ty in ty..max_view_ty { row; reset screen_px; screen_py += TL_PX }
\* view_px and viewport_x are what the reset at the end of a row reads.
RECURSIVE AllRows(_, _, _, _, _, _, _, _)
AllRows(ty, max_ty, view_tx, max_tx, screen_px, screen_py, view_px, viewport_x) ==
    IF ty >= max_ty THEN << >>
    ELSE RowTiles(view_tx, max_tx, ty, screen_px, screen_py)
         \o AllRows(ty + 1, max_ty, view_tx, max_tx,
                    RowResetPx(view_px, viewport_x), screen_py + TL_PX,
                    view_px, viewport_x)

generate_viewport_tiles(vp) ==
    LET view_px == FitToTile(vp[1])
        view_py == FitToTile(vp[2])
        view_tx == RustDiv(view_px, TL_PX)
        view_ty == RustDiv(view_py, TL_PX)
        max_view_tx == max_view_t(view_tx, WIDTH_PX)
        max_view_ty == max_view_t(view_ty, HEIGHT_PX)
        screen_px == view_px - vp[1]
        screen_py == view_py - vp[2]
    IN  AllRows(view_ty, max_view_ty, view_tx, max_view_tx,
                screen_px, screen_py, view_px, vp[1])

\* ------------------------------------------------------------------------
\* game.rs / movement_system.rs / animation_system.rs: the pure parts
\* ------------------------------------------------------------------------

DESIRED_FPS == 60

\* The rate literal of the second gate of in_game_update.
ANIMATION_FPS == 8

PLAYER_ANIMATION_FRAMES == 4

PLAYER_MOVE_SPEED_TPS == 1

\* The clamp's arguments at both call sites: 0.1 and 50.0.
CLAMP_MIN == Unit \div 10

CLAMP_MAX == 50 * Unit

\* A variant of unsigned_zeroing_clamp: the upper bound tested on the signed
\* value, so that only positive values are capped.
clamp_one_sided(value_, min, max) ==
    LET c1 == IF Abs(value_) < min THEN 0 ELSE value_
        c2 == IF value_ > max THEN max ELSE c1
    IN  c2

\* A variant of unsigned_zeroing_clamp: small values are not zeroed.
clamp_not_zeroing(value_, min, max) ==
    IF Abs(value_) > max THEN max * Signum(value_) ELSE value_

\* A variant of unsigned_zeroing_clamp: the second if, the cap, left out.
clamp_floor_only(value_, min, max) ==
    IF Abs(value_) < min THEN 0 ELSE value_

\* game.rs: unsigned_zeroing_clamp.  Two ifs in sequence, both on `value`.
unsigned_zeroing_clamp(value_, min, max) ==
    LET c1 == IF Abs(value_) < min THEN 0 ELSE value_
        c2 == IF Abs(value_) > max THEN max * Signum(value_) ELSE c1
    IN  c2

\* movement_system.rs: its own copy of unsigned_zeroing_clamp.
ms_unsigned_zeroing_clamp(value_, min, max) ==
    LET c1 == IF Abs(value_) < min THEN 0 ELSE value_
        c2 == IF Abs(value_) > max THEN max * Signum(value_) ELSE c1
    IN  c2

\* velocity *= 0.1, one component
Decay(v) == RustDiv(v, 10)

\* A variant of MovementStep: the position is advanced by the velocity the
\* step started with, before the decay and the clamp.
MovementStepStale(vel, pos) ==
    LET vx == unsigned_zeroing_clamp(Decay(vel[1]), CLAMP_MIN, CLAMP_MAX)
        vy == unsigned_zeroing_clamp(Decay(vel[2]), CLAMP_MIN, CLAMP_MAX)
    IN  [velocity |-> << vx, vy >>, position |-> << pos[1] + vel[1], pos[2] + vel[2] >>]

\* game.rs: the body of the first gate of in_game_update.
MovementStep(vel, pos) ==
    LET vx == unsigned_zeroing_clamp(Decay(vel[1]), CLAMP_MIN, CLAMP_MAX)
        vy == unsigned_zeroing_clamp(Decay(vel[2]), CLAMP_MIN, CLAMP_MAX)
    IN  [velocity |-> << vx, vy >>, position |-> << pos[1] + vx, pos[2] + vy >>]

\* movement_system.rs: MovementSystem::run, for the one player entity.
MovementSystemRun(vel, pos) ==
    LET vx == ms_unsigned_zeroing_clamp(Decay(vel[1]), CLAMP_MIN, CLAMP_MAX)
        vy == ms_unsigned_zeroing_clamp(Decay(vel[2]), CLAMP_MIN, CLAMP_MAX)
    IN  [velocity |-> << vx, vy >>, position |-> << pos[1] + vx, pos[2] + vy >>]

\* A variant of AnimationStep: the index is kept when the player is at rest.
AnimationStepNoReset(vel, index) ==
    IF Abs(vel[1]) > 0 \/ Abs(vel[2]) > 0
    THEN (index + 1) % PLAYER_ANIMATION_FRAMES
    ELSE index

\* A variant of AnimationStep: the cycle one frame too long.
AnimationStepOneMore(vel, index) ==
    IF Abs(vel[1]) > 0 \/ Abs(vel[2]) > 0
    THEN (index + 1) % (PLAYER_ANIMATION_FRAMES + 1)
    ELSE 0

\* game.rs: the body of the second gate of in_game_update.
AnimationStep(vel, index) ==
    IF Abs(vel[1]) > 0 \/ Abs(vel[2]) > 0
    THEN (index + 1) % PLAYER_ANIMATION_FRAMES
    ELSE 0

\* animation_system.rs: AnimationSystem::run, for the one player entity.
AnimationSystemRun(vel, index) ==
    IF Abs(vel[1]) > 0 \/ Abs(vel[2]) > 0
    THEN (index + 1) % PLAYER_ANIMATION_FRAMES
    ELSE 0

\* main.rs: Direction::from_keycode; "None" for a key that is no direction.
KeyCodes == {"Up", "W", "Down", "S", "Left", "A", "Right", "D",
             "Escape", "Key0", "Return", "Space"}

from_keycode(key) ==
    CASE key \in {"Up", "W"} -> "Up"
      [] key \in {"Down", "S"} -> "Down"
      [] key \in {"Left", "A"} -> "Left"
      [] key \in {"Right", "D"} -> "Right"
      [] OTHER -> "None"

\* game.rs: the delta try_move_player adds to the velocity.
ImpulseMagnitude == PLAYER_MOVE_SPEED_TPS * TL_PX * Unit

\* A variant of move_delta: the y axis pointing up the screen.
move_delta_y_up(dir) ==
    CASE dir = "Up" -> << 0, ImpulseMagnitude >>
      [] dir = "Left" -> << -1 * ImpulseMagnitude, 0 >>
      [] dir = "Down" -> << 0, -1 * ImpulseMagnitude >>
      [] dir = "Right" -> << ImpulseMagnitude, 0 >>

move_delta(dir) ==
    CASE dir = "Up" -> << 0, -1 * ImpulseMagnitude >>
      [] dir = "Left" -> << -1 * ImpulseMagnitude, 0 >>
      [] dir = "Down" -> << 0, ImpulseMagnitude >>
      [] dir = "Right" -> << ImpulseMagnitude, 0 >>

\* ------------------------------------------------------------------------
\* u32 arithmetic (map.rs: the fields of MapTile and TileSheet; game.rs:
\* the tile atlas computation of in_game_draw).  A u32 is << hi, lo >>, its
\* two 16-bit halves.  Every operation gives the value modulo 2^32 and
\* whether the exact result left the u32 range: a build with overflow checks
\* (debug) panics there, one without (release) goes on with the wrapped
\* value.  The products are those of the atlas computation, where one factor
\* is a tile size, a spacing or TILES_PER_ROW, below 2^15.
\* ------------------------------------------------------------------------

U16 == 2^16

u32_from(n) == << n \div U16, n % U16 >>

u32_lt(a, b) == a[1] < b[1] \/ (a[1] = b[1] /\ a[2] < b[2])

u32_sub(a, b) ==
    LET lo == a[2] - b[2]
        borrow == IF lo < 0 THEN 1 ELSE 0
    IN  [ overflow |-> u32_lt(a, b),
          value |-> << (a[1] - b[1] - borrow) % U16, lo % U16 >> ]

u32_add(a, b) ==
    LET lo == a[2] + b[2]
        hi == a[1] + b[1] + (lo \div U16)
    IN  [ overflow |-> hi >= U16,
          value |-> << hi % U16, lo % U16 >> ]

u32_mul(a, b) ==
    LET lo == a[2] * b[2]
        hi == a[1] * b[2] + a[2] * b[1] + (lo \div U16)
    IN  [ overflow |-> (a[1] > 0 /\ b[1] > 0) \/ hi >= U16,
          value |-> << hi % U16, lo % U16 >> ]

\* Division and remainder by a small divisor cannot overflow.
u32_div(a, d) == << a[1] \div d, ((a[1] % d) * U16 + a[2]) \div d >>

u32_rem(a, d) == u32_from(((a[1] % d) * U16 + a[2]) % d)

\* ------------------------------------------------------------------------
\* map.rs: the map loaders.  A map is a function from the tile coordinates
\* it holds to MapTiles; a TMX layer is its rows of gids.
\* ------------------------------------------------------------------------

load_basic_map_tmx_finite(tiles) ==
    [ key \in { << x, y >> : x \in 0..(Len(tiles[1]) - 1),
                             y \in 0..(Len(tiles) - 1) }
        |-> [ tile_id |-> tiles[key[2] + 1][key[1] + 1],
              tile_type |-> "Floor" ] ]

load_basic_map_tmx_infinite == << >>

\* ------------------------------------------------------------------------
\* game.rs: in_game_draw, the tile atlas and the player sprite
\* ------------------------------------------------------------------------

\* The id of the tile drawn where the map holds none.
MISSING_TILE_ID == 10

MissingTile == [ tile_id |-> MISSING_TILE_ID, tile_type |-> "Missing" ]

\* match map.get(&(tile_x, tile_y)) { Some(map_tile) => map_tile, None => Missing }
map_tile_at(map, tile_x, tile_y) ==
    IF << tile_x, tile_y >> \in DOMAIN map
    THEN map[<< tile_x, tile_y >>]
    ELSE MissingTile

TILES_PER_ROW == 10

\* A variant of tile_index: the id taken as the index, first_tile_id unused.
tile_index_from_zero(tile_id, first_tile_id) ==
    u32_sub(u32_from(tile_id), u32_from(0))

\* let tile_index = map_tile.tile_id - tilesheet.first_tile_id
tile_index(tile_id, first_tile_id) ==
    u32_sub(u32_from(tile_id), u32_from(first_tile_id))

\* margin + (index * size) + (index * spacing), for either axis
atlas_offset(index, size, sheet) ==
    LET by_size == u32_mul(index, u32_from(size))
        by_spacing == u32_mul(index, u32_from(sheet.spacing))
        sum1 == u32_add(u32_from(sheet.margin), by_size.value)
        sum2 == u32_add(sum1.value, by_spacing.value)
    IN  [ overflow |-> by_size.overflow \/ by_spacing.overflow
                       \/ sum1.overflow \/ sum2.overflow,
          value |-> sum2.value ]

\* A variant of atlas_extent: the length of one tile.
atlas_extent_one_tile(size) == u32_mul(u32_from(1), u32_from(size))

\* (TILES_PER_ROW * size), the length the offsets are divided by
atlas_extent(size) == u32_mul(u32_from(TILES_PER_ROW), u32_from(size))

\* The tile loop's body up to tile_rectangle.  A fraction is
\* << numerator, denominator >>, the two u32 values the code converts to f32
\* and divides; the rectangle is << x, y, w, h >>.  When the build panics no
\* rectangle comes to be.
tile_rectangle(build_, map_tile, tilesheet_) ==
    LET index == tile_index(map_tile.tile_id, tilesheet_.first_tile_id)
        horizontal_index == u32_rem(index.value, TILES_PER_ROW)
        vertical_index == u32_div(index.value, TILES_PER_ROW)
        horizontal_offset ==
            atlas_offset(horizontal_index, tilesheet_.tile_width, tilesheet_)
        vertical_offset ==
            atlas_offset(vertical_index, tilesheet_.tile_height, tilesheet_)
        width == atlas_extent(tilesheet_.tile_width)
        height == atlas_extent(tilesheet_.tile_height)
        overflow == index.overflow \/ horizontal_offset.overflow
                    \/ vertical_offset.overflow \/ width.overflow
                    \/ height.overflow
    IN  IF build_ = "debug" /\ overflow
        THEN [ panicked |-> TRUE, map_tile |-> map_tile, tile_index |-> << >>,
               horizontal_index |-> << >>, vertical_index |-> << >>,
               rectangle |-> << >> ]
        ELSE [ panicked |-> FALSE, map_tile |-> map_tile,
               tile_index |-> index.value,
               horizontal_index |-> horizontal_index,
               vertical_index |-> vertical_index,
               rectangle |->
                   << << horizontal_offset.value, width.value >>,
                      << vertical_offset.value, height.value >>,
                      << u32_from(tilesheet_.tile_width), width.value >>,
                      << u32_from(tilesheet_.tile_height), height.value >> >> ]

\* One pass of the loop `for (tile_x, tile_y, _, _, screen_x, screen_y) in
\* viewport_tiles.iter()`: the tile looked up, its rectangle, where it goes.
draw_tile(build_, map_, tilesheet_, entry) ==
    [ tile |-> << entry[1], entry[2] >>,
      dest |-> << entry[5], entry[6] >>,
      src |-> tile_rectangle(build_, map_tile_at(map_, entry[1], entry[2]),
                             tilesheet_) ]

\* The loop: the passes made, in order; a panic ends it.
draw_tiles(build_, map_, tilesheet_, tiles) ==
    LET passes == [ i \in 1..Len(tiles) |->
                        draw_tile(build_, map_, tilesheet_, tiles[i]) ]
        panics == { i \in 1..Len(tiles) : passes[i].src.panicked }
        last == IF panics = { } THEN Len(tiles)
                ELSE CHOOSE i \in panics : \A k \in panics : i <= k
    IN  SubSeq(passes, 1, last)

\* .dest(screen_x, screen_y).offset(0.5, 0.5): the point of the drawn tile
\* that is put at dest, as a fraction << numerator, denominator >> of the
\* tile's length on each axis.
TILE_DRAW_OFFSET == << 1, 2 >>

\* Where the top-left corner of a tile drawn at dest comes to lie on the
\* screen, one axis: dest less the offset's share of the tile's length.
tile_corner(dest_p) ==
    dest_p - RustDiv(TL_PX * TILE_DRAW_OFFSET[1], TILE_DRAW_OFFSET[2])

\* The player sprite sheet: 10 columns, 5 rows.
SPRITE_COLUMNS == 10

SPRITE_ROWS == 5

\* A variant of sprite_row: the rows in the order Direction declares them.
sprite_row_declared(dir) ==
    CASE dir = "Up" -> 0
      [] dir = "Down" -> 1
      [] dir = "Left" -> 2
      [] dir = "Right" -> 3

\* let vertical_index = match player.direction { ... }
sprite_row(dir) ==
    CASE dir = "Down" -> 0
      [] dir = "Left" -> 1
      [] dir = "Right" -> 2
      [] dir = "Up" -> 3

\* desired_sprite_subrectangle, as << x, y, w, h >> of fractions
\* << numerator, denominator >>; 0.1 and 0.2 are 1/10 and 1/5.
desired_sprite_subrectangle(dir, index) ==
    << << index, SPRITE_COLUMNS >>, << sprite_row(dir), SPRITE_ROWS >>,
       << 1, 10 >>, << 1, 5 >> >>

\* ------------------------------------------------------------------------
\* The frame timer (ggez::timer, as game.rs and menu.rs use it): the one
\* Context holds one residual_update_dt; tick() adds the frame's duration to
\* it, and check_update_time(ctx, fps) tests it against 1/fps and, when it
\* is larger, takes 1/fps off it and returns true.
\* ------------------------------------------------------------------------

TicksPerSecond == 2 * DESIRED_FPS

fps_as_duration(fps) == TicksPerSecond \div fps

\* Whether check_update_time(ctx, fps) returns true with `residual` owed.
check_update_time(residual, fps) == residual > fps_as_duration(fps)

\* residual_update_dt after check_update_time(ctx, fps).
after_check(residual, fps) ==
    IF check_update_time(residual, fps) THEN residual - fps_as_duration(fps)
    ELSE residual

\* menu.rs: while timer::check_update_time(ctx, 60) { }
RECURSIVE DrainUpdates(_, _)
DrainUpdates(residual, fps) ==
    IF check_update_time(residual, fps)
    THEN DrainUpdates(after_check(residual, fps), fps)
    ELSE residual

\* ------------------------------------------------------------------------
\* Bounds of the model
\* ------------------------------------------------------------------------

\* Directional impulses in one run of the game.
MaxImpulses == 2

\* The longest frame, and the most time the timer is let to owe, in ticks.
MaxDelta == 18

MaxResidual == 20

\* The count of movement steps since the last impulse stops at this.
MaxCoast == 4

\* ------------------------------------------------------------------------
\* State
\* ------------------------------------------------------------------------

VARIABLES
    root,                \* GameState.root: "StartMenu" or "InGame"
    continuing,          \* the Context's flag that event::quit clears
    show_fps,            \* GameState.show_fps
    residual_update_dt,  \* the Context's timer: time owed to the update gates
    position,            \* the player's Position, << x, y >>
    velocity,            \* Player.velocity, << x, y >>
    direction,           \* Player.direction
    animation_index,     \* Player.animation_index
    pc,                  \* "frame": between handlers; "anim": inside
                         \* in_game_update, before its second gate
    impulses,            \* history: impulses applied so far (bounds the model)
    coast,               \* history: movement steps since the last impulse
    viewport_tiles,      \* in_game_draw's local: the visible-tile list
    value,               \* an argument of unsigned_zeroing_clamp
    clamped_value,       \* what its two copies return for it
    build,               \* "debug": integer overflow panics; "release": it wraps
    tilesheet,           \* the TileSheet in the world
    map,                 \* the BTreeMap<(i32, i32), MapTile> in the world
    tile_draws,          \* the tile draws in_game_draw made, in order
    sprite_draw,         \* the source rectangle it drew the player with
    dirty,               \* Viewport.dirty (component.rs); no handler writes it
    last_draw,           \* history: the latest in_game_draw since the
                         \* Position last changed: whether a list computed
                         \* for this Position existed, whether it computed one
    pressed,             \* history: the directions pressed since the last
                         \* movement step
    base                 \* history: the velocity that step left

vars == << root, continuing, show_fps, residual_update_dt, position, velocity,
           direction, animation_index, pc, impulses, coast, viewport_tiles,
           value, clamped_value, build, tilesheet, map, tile_draws,
           sprite_draw, dirty, last_draw, pressed, base >>

\* No call made yet; after a call, << game.rs copy's result, movement_system.rs copy's >>.
NoResult == << >>

player_vars == << position, velocity, direction, animation_index >>

asset_vars == << build, tilesheet, map >>

screen_vars == << tile_draws, sprite_draw >>

fn_vars == << viewport_tiles, value, clamped_value, asset_vars, screen_vars,
              dirty >>

hist_vars == << last_draw, pressed, base >>

\* No in_game_draw yet at the player's Position.
NoDraw == [ cached |-> FALSE, recomputed |-> FALSE ]

\* A tile sheet of 32 x 32 tiles without margin or spacing, ids from 1.
PlainSheet ==
    [ first_tile_id |-> 1, tile_width |-> TL_PX, tile_height |-> TL_PX,
      spacing |-> 0, margin |-> 0 ]

\* What every run starts with besides the player and the assets: nothing
\* drawn yet, no Viewport marked dirty, no key pressed.
NothingDrawn ==
    /\ tile_draws = << >>
    /\ sprite_draw = NoResult
    /\ dirty = FALSE
    /\ last_draw = NoDraw
    /\ pressed = << >>

\* The assets of the runs that do not look at what is drawn.
PlainAssets ==
    /\ build = "debug"
    /\ tilesheet = PlainSheet
    /\ map = load_basic_map_tmx_infinite

\* The state GameState::new builds: the player at the origin, facing down,
\* at rest, in the start menu.
Init ==
    /\ root = "StartMenu"
    /\ continuing = TRUE
    /\ show_fps = FALSE
    /\ residual_update_dt = 0
    /\ position = << 0, 0 >>
    /\ velocity = << 0, 0 >>
    /\ direction = "Down"
    /\ animation_index = 0
    /\ pc = "frame"
    /\ impulses = 0
    /\ coast = 0
    /\ viewport_tiles = << >>
    /\ value = 0
    /\ clamped_value = NoResult
    /\ PlainAssets
    /\ NothingDrawn
    /\ base = velocity

\* ------------------------------------------------------------------------
\* The event loop's steps.  A frame may be shorter than one tick of the
\* model's clock, so the order of the timer's tick, the key events and the
\* update and draw callbacks is left free.
\* ------------------------------------------------------------------------

\* The loop's timer tick at the start of a frame that took dt.
TimerTick(dt) ==
    /\ continuing /\ pc = "frame"
    /\ residual_update_dt + dt <= MaxResidual
    /\ residual_update_dt' = residual_update_dt + dt
    /\ UNCHANGED << root, continuing, show_fps, player_vars, pc, impulses,
                    coast, fn_vars, hist_vars >>

\* menu.rs: start_menu_input
start_menu_input(keycode) ==
    /\ continuing /\ pc = "frame" /\ root = "StartMenu"
    /\ root' = IF keycode = "Return" THEN "InGame" ELSE root
    /\ continuing' = IF keycode = "Escape" THEN FALSE ELSE continuing
    /\ UNCHANGED << show_fps, residual_update_dt, player_vars, pc, impulses,
                    coast, fn_vars, hist_vars >>

\* menu.rs: start_menu_update
start_menu_update ==
    /\ continuing /\ pc = "frame" /\ root = "StartMenu"
    /\ residual_update_dt' = DrainUpdates(residual_update_dt, DESIRED_FPS)
    /\ UNCHANGED << root, continuing, show_fps, player_vars, pc, impulses,
                    coast, fn_vars, hist_vars >>

\* menu.rs: start_menu_draw draws the title and changes no state.
start_menu_draw ==
    /\ continuing /\ pc = "frame" /\ root = "StartMenu"
    /\ UNCHANGED vars

\* game.rs: try_move_player
try_move_player(dir) ==
    /\ direction' = dir
    /\ velocity' = << velocity[1] + move_delta(dir)[1],
                      velocity[2] + move_delta(dir)[2] >>
    /\ UNCHANGED << position, animation_index >>

\* game.rs: in_game_input
in_game_input(keycode) ==
    /\ continuing /\ pc = "frame" /\ root = "InGame"
    /\ IF from_keycode(keycode) # "None"
       THEN /\ impulses < MaxImpulses
            /\ impulses' = impulses + 1
            /\ coast' = 0
            /\ pressed' = Append(pressed, from_keycode(keycode))
            /\ try_move_player(from_keycode(keycode))
       ELSE UNCHANGED << player_vars, impulses, coast, pressed >>
    /\ continuing' = IF keycode = "Escape" THEN FALSE ELSE continuing
    /\ show_fps' = IF keycode = "Key0" THEN ~show_fps ELSE show_fps
    /\ UNCHANGED << root, residual_update_dt, pc, fn_vars, last_draw, base >>

\* game.rs: in_game_update, its first gate (movement, DESIRED_FPS)
in_game_update_movement ==
    /\ continuing /\ pc = "frame" /\ root = "InGame"
    /\ residual_update_dt' = after_check(residual_update_dt, DESIRED_FPS)
    /\ IF check_update_time(residual_update_dt, DESIRED_FPS)
       THEN /\ velocity' = MovementStep(velocity, position).velocity
            /\ position' = MovementStep(velocity, position).position
            /\ coast' = IF coast < MaxCoast THEN coast + 1 ELSE coast
            /\ last_draw' = IF position' = position THEN last_draw ELSE NoDraw
            /\ pressed' = << >>
            /\ base' = velocity'
       ELSE UNCHANGED << velocity, position, coast, last_draw, pressed, base >>
    /\ pc' = "anim"
    /\ UNCHANGED << root, continuing, show_fps, direction, animation_index,
                    impulses, fn_vars >>

\* game.rs: in_game_update, its second gate (animation, 8 per second)
in_game_update_animation ==
    /\ pc = "anim"
    /\ residual_update_dt' = after_check(residual_update_dt, ANIMATION_FPS)
    /\ IF check_update_time(residual_update_dt, ANIMATION_FPS)
       THEN animation_index' = AnimationStep(velocity, animation_index)
       ELSE UNCHANGED animation_index
    /\ pc' = "frame"
    /\ UNCHANGED << root, continuing, show_fps, position, velocity, direction,
                    impulses, coast, fn_vars, hist_vars >>

\* game.rs: in_game_draw reads the state and draws; it changes none of it.
\* It computes the tile list anew on every call (lines 69-71) and neither
\* reads nor writes a Viewport.  What it puts on the screen is followed in
\* SpecDraw.
in_game_draw ==
    /\ continuing /\ pc = "frame" /\ root = "InGame"
    /\ last_draw' = [ cached |-> last_draw.recomputed, recomputed |-> TRUE ]
    /\ UNCHANGED << root, continuing, show_fps, residual_update_dt, player_vars,
                    pc, impulses, coast, fn_vars, pressed, base >>

Next ==
    \/ \E dt \in 1..MaxDelta : TimerTick(dt)
    \/ \E keycode \in KeyCodes : start_menu_input(keycode)
    \/ start_menu_update
    \/ start_menu_draw
    \/ \E keycode \in KeyCodes : in_game_input(keycode)
    \/ in_game_update_movement
    \/ in_game_update_animation
    \/ in_game_draw

Spec == Init /\ [][Next]_vars

\* ------------------------------------------------------------------------
\* Coasting: the game after a burst of key presses that no movement step
\* interrupted, with no impulse from then on.  The burst left up to MaxBurst
\* impulses' worth of velocity on each axis.
\* ------------------------------------------------------------------------

MaxBurst == 16

BurstVelocities == { k * ImpulseMagnitude : k \in -MaxBurst..MaxBurst }

InitCoast ==
    /\ root = "InGame"
    /\ continuing = TRUE
    /\ show_fps = FALSE
    /\ residual_update_dt = 0
    /\ position = << 0, 0 >>
    /\ velocity \in BurstVelocities \X BurstVelocities
    /\ direction = "Down"
    /\ animation_index = 0
    /\ pc = "frame"
    /\ impulses = MaxImpulses
    /\ coast = 0
    /\ viewport_tiles = << >>
    /\ value = 0
    /\ clamped_value = NoResult
    /\ PlainAssets
    /\ NothingDrawn
    /\ base = velocity

NextCoast ==
    \/ \E dt \in 1..MaxDelta : TimerTick(dt)
    \/ in_game_update_movement
    \/ in_game_update_animation
    \/ in_game_draw

SpecCoast == InitCoast /\ [][NextCoast]_vars

\* ------------------------------------------------------------------------
\* unsigned_zeroing_clamp on its own: called with the game's min and max on
\* a bounded set of values, through both of its copies.
\* ------------------------------------------------------------------------

\* Values in hundredths up to MaxFine of them, and whole units up to MaxCoarse.
MaxFine == 20

MaxCoarse == 60

ClampValues ==
    { k * (Unit \div 100) : k \in -MaxFine..MaxFine }
    \cup { k * Unit : k \in -MaxCoarse..MaxCoarse }

InitClamp ==
    /\ root = "InGame"
    /\ continuing = TRUE
    /\ show_fps = FALSE
    /\ residual_update_dt = 0
    /\ position = << 0, 0 >>
    /\ velocity = << 0, 0 >>
    /\ direction = "Down"
    /\ animation_index = 0
    /\ pc = "frame"
    /\ impulses = 0
    /\ coast = 0
    /\ viewport_tiles = << >>
    /\ value \in ClampValues
    /\ clamped_value = NoResult
    /\ PlainAssets
    /\ NothingDrawn
    /\ base = velocity

CallClamp ==
    /\ clamped_value = NoResult
    /\ clamped_value' =
           << unsigned_zeroing_clamp(value, CLAMP_MIN, CLAMP_MAX),
              ms_unsigned_zeroing_clamp(value, CLAMP_MIN, CLAMP_MAX) >>
    /\ UNCHANGED << root, continuing, show_fps, residual_update_dt, player_vars,
                    pc, impulses, coast, viewport_tiles, value, asset_vars,
                    screen_vars, dirty, hist_vars >>

NextClamp == CallClamp

SpecClamp == InitClamp /\ [][NextClamp]_vars

\* ------------------------------------------------------------------------
\* The visible-tile computation of in_game_draw on its own: the player
\* stands on a bounded set of positions around the point where the game
\* starts, (0, 0), and around the point whose viewport origin is (0, 0), and
\* one draw resolves the viewport.
\* ------------------------------------------------------------------------

\* Offsets from those points run over the half pixels up to MaxViewPos of
\* them either side; the y offset is the x offset moved by one of ViewShifts.
MaxViewPos == 140

ViewOffsets == { k * (Unit \div 2) : k \in -MaxViewPos..MaxViewPos }

ViewShifts == { 0, 7 * Unit, -40 * Unit }

ViewCentres ==
    { << 0, 0 >>, << RustDiv(WIDTH_PX, 2) * Unit, RustDiv(HEIGHT_PX, 2) * Unit >> }

ViewPositions ==
    { << c[1] + a, c[2] + a + s >> :
          c \in ViewCentres, a \in ViewOffsets, s \in ViewShifts }

\* game.rs: the first statements of in_game_draw
draw_viewport_tiles(pos) == generate_viewport_tiles(calculate_viewport(pos))

InitViewport ==
    /\ root = "InGame"
    /\ continuing = TRUE
    /\ show_fps = FALSE
    /\ residual_update_dt = 0
    /\ position \in ViewPositions
    /\ velocity = << 0, 0 >>
    /\ direction = "Down"
    /\ animation_index = 0
    /\ pc = "frame"
    /\ impulses = 0
    /\ coast = 0
    /\ viewport_tiles = << >>
    /\ value = 0
    /\ clamped_value = NoResult
    /\ PlainAssets
    /\ NothingDrawn
    /\ base = velocity

DrawViewport ==
    /\ continuing /\ pc = "frame" /\ root = "InGame"
    /\ viewport_tiles = << >>
    /\ viewport_tiles' = draw_viewport_tiles(position)
    /\ UNCHANGED << root, continuing, show_fps, residual_update_dt, player_vars,
                    pc, impulses, coast, value, clamped_value, asset_vars,
                    screen_vars, dirty, hist_vars >>

NextViewport == DrawViewport

SpecViewport == InitViewport /\ [][NextViewport]_vars

\* ------------------------------------------------------------------------
\* What in_game_draw puts on the screen: one frame drawn by either build,
\* from a bounded set of tile sheets and maps, with the player standing near
\* the map and facing any way.
\* ------------------------------------------------------------------------

Builds == { "debug", "release" }

Directions == { "Up", "Down", "Left", "Right" }

\* first_tile_id is 0, 1 or MaxFirstTileId; spacing 0 or MaxSpacing; margin
\* up to MaxMargin; the gids of a layer go up to MaxGid.
MaxFirstTileId == 11

MaxSpacing == 2

MaxMargin == 1

MaxGid == 101

TileSizes == { << TL_PX, TL_PX >>, << TL_PX \div 2, TL_PX >> }

TileSheets ==
    { [ first_tile_id |-> f, tile_width |-> wh[1], tile_height |-> wh[2],
        spacing |-> s, margin |-> m ] :
          f \in { 0, 1, MaxFirstTileId }, wh \in TileSizes,
          s \in { 0, MaxSpacing }, m \in 0..MaxMargin }

Gids == { 0, 1, MISSING_TILE_ID, MISSING_TILE_ID + 1, MaxGid - 1, MaxGid }

\* The maps: the one the infinite loader gives (empty), and those the finite
\* loader gives for a layer of two rows of two gids.
Layers == { << << g, g + 1 >>, << g + TILES_PER_ROW, g >> >> : g \in Gids }

Maps ==
    { load_basic_map_tmx_infinite }
    \cup { load_basic_map_tmx_finite(tiles) : tiles \in Layers }

DrawPositions == { << 0, 0 >>, << 40 * Unit + (Unit \div 2), -20 * Unit >> }

InitDraw ==
    /\ root = "InGame"
    /\ continuing = TRUE
    /\ show_fps = FALSE
    /\ residual_update_dt = 0
    /\ velocity = << 0, 0 >>
    /\ pc = "frame"
    /\ impulses = 0
    /\ coast = 0
    /\ viewport_tiles = << >>
    /\ value = 0
    /\ clamped_value = NoResult
    /\ NothingDrawn
    /\ base = velocity
    /\ build \in Builds
    /\ \/ /\ tilesheet \in TileSheets
          /\ map \in Maps
          /\ position \in DrawPositions
          /\ direction = "Down"
          /\ animation_index = 0
       \/ /\ tilesheet = PlainSheet
          /\ map = load_basic_map_tmx_infinite
          /\ position = << 0, 0 >>
          /\ direction \in Directions
          /\ animation_index \in 0..(PLAYER_ANIMATION_FRAMES - 1)

\* The tile loop ended in a panic.
Panicked(draws) == draws # << >> /\ draws[Len(draws)].src.panicked

\* game.rs: in_game_draw, with what it draws: the tiles, then the player
\* unless the tile loop panicked.
DrawFrame ==
    /\ continuing /\ pc = "frame" /\ root = "InGame"
    /\ tile_draws = << >>
    /\ viewport_tiles' = draw_viewport_tiles(position)
    /\ tile_draws' = draw_tiles(build, map, tilesheet, viewport_tiles')
    /\ sprite_draw' = IF Panicked(tile_draws') THEN NoResult
                      ELSE desired_sprite_subrectangle(direction, animation_index)
    /\ last_draw' = [ cached |-> last_draw.recomputed, recomputed |-> TRUE ]
    /\ UNCHANGED << root, continuing, show_fps, residual_update_dt, player_vars,
                    pc, impulses, coast, value, clamped_value, asset_vars,
                    dirty, pressed, base >>

NextDraw == DrawFrame

SpecDraw == InitDraw /\ [][NextDraw]_vars

\* ------------------------------------------------------------------------
\* Claims on the visible-tile computation (SpecViewport)
\* ------------------------------------------------------------------------

\* The unsnapped origin the drawn list was computed for.
Origin == calculate_viewport(position)

Drawn == viewport_tiles # << >>

\* The left edges of the entries whose TL_PX square, laid with its top-left
\* corner at the entry's screen position, meets pixel row sy.
RowXs(tiles, sy) ==
    { tiles[i][5] : i \in { j \in DOMAIN tiles :
                            tiles[j][6] <= sy /\ sy < tiles[j][6] + TL_PX } }

\* Every pixel (sx, sy) of the screen lies in the square of some entry: the
\* entry's rows contain sy (its left edge is in RowXs(tiles, sy)) and its
\* columns contain sx.  Pixel rows met by the same entries are checked once.
CoversScreen(tiles) ==
    \A xs \in { RowXs(tiles, sy) : sy \in 0..(HEIGHT_PX - 1) } :
        \A sx \in 0..(WIDTH_PX - 1) :
            \E a \in xs : a <= sx /\ sx < a + TL_PX

\* C1: for every player position the entries returned by
\* generate_viewport_tiles(calculate_viewport(position)) cover the whole
\* 960 x 540 screen: every pixel lies in the TL x TL square that starts at
\* some entry's (screenPxX, screenPxY).
C1_ScreenCovered == Drawn => CoversScreen(viewport_tiles)

\* C1's case: a draw with the origin 31 pixels past a tile boundary on both
\* axes, where snapping takes the most off the near edges.
C1_Witness ==
    /\ Drawn
    /\ Origin[1] % TL_PX = TL_PX - 1
    /\ Origin[2] % TL_PX = TL_PX - 1

\* m is the largest multiple of TL_PX that is <= v.
IsFloorMultiple(m, v) ==
    /\ m % TL_PX = 0
    /\ m <= v
    /\ v < m + TL_PX

\* C2: the snapping at the start of generate_viewport_tiles yields the
\* largest multiple of TL = 32 that is <= the origin coordinate, for
\* positive, zero and negative coordinates (floor, not truncation): the
\* first entry's tile pixel coordinates are that multiple; -5 snaps to -32,
\* 31 to 0 and 32 to 32.
C2_SnapIsFloor ==
    /\ Drawn =>
         /\ IsFloorMultiple(FitToTile(Origin[1]), Origin[1])
         /\ IsFloorMultiple(FitToTile(Origin[2]), Origin[2])
         /\ viewport_tiles[1][3] = FitToTile(Origin[1])
         /\ viewport_tiles[1][4] = FitToTile(Origin[2])
    /\ FitToTile(-5) = -32
    /\ FitToTile(31) = 0
    /\ FitToTile(32) = 32

\* C2's case: a draw whose origin is more than two tiles below zero and off
\* the tile grid.
C2_Witness ==
    /\ Drawn
    /\ Origin[1] < -2 * TL_PX
    /\ RustRem(Origin[1], TL_PX) # 0
    /\ viewport_tiles[1][3] = -3 * TL_PX

\* C3: every entry's screen position is its tile position less the
\* unsnapped origin: screenPxX = tx * TL - originX, screenPxY = ty * TL -
\* originY, in every row of the list.
C3_ScreenPxFromUnsnappedOrigin ==
    Drawn =>
        \A i \in DOMAIN viewport_tiles :
            /\ viewport_tiles[i][5] = viewport_tiles[i][1] * TL_PX - Origin[1]
            /\ viewport_tiles[i][6] = viewport_tiles[i][2] * TL_PX - Origin[2]

\* C3's case: the origin is off the tile grid, and the list has entries past
\* its first row, after the accumulator was reset.
C3_Witness ==
    /\ Drawn
    /\ RustRem(Origin[1], TL_PX) # 0
    /\ RustRem(Origin[2], TL_PX) # 0
    /\ \E i \in DOMAIN viewport_tiles :
           /\ viewport_tiles[i][2] > viewport_tiles[1][2]
           /\ viewport_tiles[i][5] < 0

CeilDiv(a, b) == (a + b - 1) \div b

ColumnsOf(tiles) == Cardinality({ tiles[i][1] : i \in DOMAIN tiles })

RowsOf(tiles) == Cardinality({ tiles[i][2] : i \in DOMAIN tiles })

\* C4: generate_viewport_tiles enumerates ceil(W / TL) + overscan columns and
\* ceil(H / TL) + overscan rows with overscan >= 2, and the product of the
\* two counts is the number of entries.
C4_CeilPlusOverscan ==
    Drawn =>
        /\ ColumnsOf(viewport_tiles) >= CeilDiv(WIDTH_PX, TL_PX) + 2
        /\ RowsOf(viewport_tiles) >= CeilDiv(HEIGHT_PX, TL_PX) + 2
        /\ Len(viewport_tiles) = ColumnsOf(viewport_tiles) * RowsOf(viewport_tiles)

\* What the code enumerates: W / TL + 2 columns and H / TL + 2 rows with
\* integer division, 32 x 18 entries.
ViewportCounts ==
    Drawn =>
        /\ ColumnsOf(viewport_tiles) = WIDTH_PX \div TL_PX + 2
        /\ RowsOf(viewport_tiles) = HEIGHT_PX \div TL_PX + 2
        /\ Len(viewport_tiles) = ColumnsOf(viewport_tiles) * RowsOf(viewport_tiles)

\* ------------------------------------------------------------------------
\* Claims on unsigned_zeroing_clamp (SpecClamp)
\* ------------------------------------------------------------------------

\* The clamp as the specification states it, with min = 0.1 and max = 50.0.
ClaimedClamp(v) ==
    IF Abs(v) < Unit \div 10 THEN 0
    ELSE IF Abs(v) > 50 * Unit THEN (IF v < 0 THEN -50 * Unit ELSE 50 * Unit)
    ELSE v

\* C5: unsigned_zeroing_clamp(v, 0.1, 50.0) is 0 when |v| < 0.1, 50 with the
\* sign of v when |v| > 50, and v otherwise, for v of either sign; the
\* copies in game.rs and movement_system.rs return the same; clamp(0.05) = 0,
\* clamp(60) = 50, clamp(-60) = -50, clamp(5) = 5.
C5_ClampContract ==
    /\ clamped_value # NoResult =>
         /\ clamped_value[1] = ClaimedClamp(value)
         /\ clamped_value[2] = clamped_value[1]
    /\ unsigned_zeroing_clamp(Unit \div 20, CLAMP_MIN, CLAMP_MAX) = 0
    /\ unsigned_zeroing_clamp(60 * Unit, CLAMP_MIN, CLAMP_MAX) = 50 * Unit
    /\ unsigned_zeroing_clamp(-60 * Unit, CLAMP_MIN, CLAMP_MAX) = -50 * Unit
    /\ unsigned_zeroing_clamp(5 * Unit, CLAMP_MIN, CLAMP_MAX) = 5 * Unit

\* C5's case: both copies called on -60 returned -50.
C5_Witness ==
    /\ value = -60 * Unit
    /\ clamped_value = << -50 * Unit, -50 * Unit >>

\* ------------------------------------------------------------------------
\* Claims on the movement step (SpecCoast)
\* ------------------------------------------------------------------------

\* This step is in_game_update's first gate, and the gate lets it through.
MoveFires ==
    /\ pc = "frame" /\ pc' = "anim"
    /\ check_update_time(residual_update_dt, DESIRED_FPS)

\* t is exactly a tenth of v.
IsTenth(t, v) == 10 * t = v

\* C6: one movement step decays, then clamps, then integrates: each
\* component of the new velocity is the clamp of a tenth of the old one, and
\* the new position is the old one plus the new velocity; MovementSystem::run
\* computes the same; from velocity (10, 0) the step leaves velocity (1, 0)
\* and advances the position by (1, 0).
C6_DecayClampIntegrate ==
    [][MoveFires =>
         /\ \A c \in {1, 2} :
              /\ \E t \in {velocity[c] \div 10} :
                     /\ IsTenth(t, velocity[c])
                     /\ velocity'[c] = ClaimedClamp(t)
              /\ position'[c] = position[c] + velocity'[c]
         /\ MovementSystemRun(velocity, position)
                = [velocity |-> velocity', position |-> position']
         /\ MovementStep(<< 10 * Unit, 0 >>, << 0, 0 >>)
                = [velocity |-> << Unit, 0 >>, position |-> << Unit, 0 >>]
      ]_vars

\* C6's case: after the first step from a velocity of 512 on x, the velocity
\* is the clamped 50 and the position has advanced by that 50.
C6_Witness ==
    /\ coast = 1
    /\ velocity = << 50 * Unit, 0 >>
    /\ position = << 50 * Unit, 0 >>

\* C7: with no further impulse, after at most 4 movement steps both velocity
\* components are exactly 0, and from then on a movement step leaves the
\* position unchanged (and the velocity 0).
C7_NoCreep ==
    /\ [](coast >= 4 => velocity = << 0, 0 >>)
    /\ [][(MoveFires /\ velocity = << 0, 0 >>) =>
             (position' = position /\ velocity' = << 0, 0 >>)]_vars

\* C7's case: three steps after the last impulse the player still moves, so
\* the fourth step is the one that stops it.
C7_Witness ==
    /\ coast = 3
    /\ velocity # << 0, 0 >>

\* ------------------------------------------------------------------------
\* Claims on the animation step and the two gates (Spec)
\* ------------------------------------------------------------------------

\* This step is in_game_update's second gate, and the gate lets it through.
AnimFires ==
    /\ pc = "anim" /\ pc' = "frame"
    /\ check_update_time(residual_update_dt, ANIMATION_FPS)

\* C8: an animation step with the player moving sets animation_index to
\* (animation_index + 1) mod 4; with the player at rest it sets it to 0,
\* whatever it was; AnimationSystem::run computes the same.
C8_AnimationCycle ==
    [][AnimFires =>
         /\ animation_index' =
                IF velocity[1] # 0 \/ velocity[2] # 0
                THEN (animation_index + 1) % 4
                ELSE 0
         /\ AnimationSystemRun(velocity, animation_index) = animation_index'
      ]_vars

\* C8's case: three animation steps with the player moving have run.
C8_Witness ==
    /\ animation_index = 3
    /\ pc = "frame"

\* C9: the two cadences are gated independently: the movement gate's pass
\* does not change whether the animation step is due, nor the animation
\* gate's pass whether the movement step is due.
C9_IndependentGates ==
    [][/\ (pc = "frame" /\ pc' = "anim") =>
            (check_update_time(residual_update_dt', ANIMATION_FPS)
                = check_update_time(residual_update_dt, ANIMATION_FPS))
       /\ (pc = "anim" /\ pc' = "frame") =>
            (check_update_time(residual_update_dt', DESIRED_FPS)
                = check_update_time(residual_update_dt, DESIRED_FPS))
      ]_vars

\* C10: when in_game_update returns, each cadence has fired until the time
\* owed to it is no longer above its step: neither gate would pass again.
C10_CatchUp ==
    [][(pc = "anim" /\ pc' = "frame") =>
           /\ ~check_update_time(residual_update_dt', DESIRED_FPS)
           /\ ~check_update_time(residual_update_dt', ANIMATION_FPS)
      ]_vars

\* The start menu's update, which loops on its gate, does catch up.
MenuCatchesUp ==
    [][(root = "StartMenu" /\ residual_update_dt' # residual_update_dt
            /\ residual_update_dt' < residual_update_dt) =>
           ~check_update_time(residual_update_dt', DESIRED_FPS)
      ]_vars

\* Within the bounds the fixed-point arithmetic is exact: a velocity whose
\* tenth is not a whole number of units decays to below the clamp's min.
DecayExact ==
    \A c \in {1, 2} :
        velocity[c] % 10 # 0 => Abs(velocity[c]) < 10 * CLAMP_MIN

\* ------------------------------------------------------------------------
\* Claims on the tile atlas and the player sprite (SpecDraw)
\* ------------------------------------------------------------------------

\* The passes of the tile loop made in the frame drawn.
Passes == 1..Len(tile_draws)

\* The pass drew a tile whose id is below the sheet's first_tile_id.
BelowFirst(d) == d.src.map_tile.tile_id < tilesheet.first_tile_id

\* C11: a tile whose id is below the sheet's first tile id is reported as an
\* addressing error when its rectangle is resolved: the draw makes no
\* rectangle for it from a wrapped or negative local index.
C11_BelowFirstIsAnError ==
    \A i \in Passes :
        BelowFirst(tile_draws[i]) => tile_draws[i].src.rectangle = << >>

\* A fraction << numerator, denominator >> of u32 values lies in [0, 1).
InUnitInterval(f) == u32_lt(f[1], f[2])

\* The pass resolved a rectangle for a tile id the sheet can address.
Resolved(d) == ~BelowFirst(d) /\ d.src.rectangle # << >>

\* C12, as claimed: for every tile id >= first_tile_id and every tile sheet,
\* the start (u, v) of the source rectangle lies in [0, 1) on both axes.
C12_SourceStartInUnit ==
    \A i \in Passes :
        Resolved(tile_draws[i])
        => /\ InUnitInterval(tile_draws[i].src.rectangle[1])
           /\ InUnitInterval(tile_draws[i].src.rectangle[2])

\* The sheet has neither margin nor spacing and the tile's local index is
\* one of the hundred of a grid of ten rows of ten.
OnTenByTenGrid(d) ==
    /\ tilesheet.margin = 0
    /\ tilesheet.spacing = 0
    /\ u32_lt(d.src.tile_index, u32_from(100))

\* C12, amended: for every tile sheet without margin and spacing and every
\* tile id from first_tile_id to first_tile_id + 99, the start (u, v) of the
\* source rectangle lies in [0, 1) on both axes.
C12_SourceStartInUnitOnGrid ==
    \A i \in Passes :
        (Resolved(tile_draws[i]) /\ OnTenByTenGrid(tile_draws[i]))
        => /\ InUnitInterval(tile_draws[i].src.rectangle[1])
           /\ InUnitInterval(tile_draws[i].src.rectangle[2])

\* The last tile of such a grid was drawn: local index 99, at (9/10, 9/10).
C12_Witness ==
    \E i \in Passes :
        /\ Resolved(tile_draws[i]) /\ OnTenByTenGrid(tile_draws[i])
        /\ tile_draws[i].src.tile_index = u32_from(99)
        /\ tile_draws[i].src.rectangle[1]
               = << u32_from(9 * tilesheet.tile_width),
                    u32_from(10 * tilesheet.tile_width) >>
        /\ tile_draws[i].src.rectangle[2]
               = << u32_from(9 * tilesheet.tile_height),
                    u32_from(10 * tilesheet.tile_height) >>

\* What the tile loop's body resolves for a tile id on the plain sheet,
\* whose first_tile_id is 1.
OnPlainSheet(id) ==
    tile_rectangle("debug", [ tile_id |-> id, tile_type |-> "Floor" ], PlainSheet)

\* C13: for every tile id >= first_tile_id the column is
\* (id - first_tile_id) mod 10 and the row (id - first_tile_id) div 10; with
\* first_tile_id 1, id 1 is at column 0, row 0, id 10 at column 9, row 0 and
\* id 11 at column 0, row 1.
C13_ColumnAndRow ==
    /\ \A i \in Passes :
           Resolved(tile_draws[i])
           => LET local == tile_draws[i].src.map_tile.tile_id
                               - tilesheet.first_tile_id
              IN  /\ tile_draws[i].src.horizontal_index = u32_from(local % 10)
                  /\ tile_draws[i].src.vertical_index = u32_from(local \div 10)
    /\ OnPlainSheet(1).horizontal_index = u32_from(0)
    /\ OnPlainSheet(1).vertical_index = u32_from(0)
    /\ OnPlainSheet(10).horizontal_index = u32_from(9)
    /\ OnPlainSheet(10).vertical_index = u32_from(0)
    /\ OnPlainSheet(11).horizontal_index = u32_from(0)
    /\ OnPlainSheet(11).vertical_index = u32_from(1)

\* Tile 11 of a sheet that starts at 1 was drawn from column 0, row 1.
C13_Witness ==
    \E i \in Passes :
        /\ tilesheet.first_tile_id = 1
        /\ tile_draws[i].src.map_tile.tile_id = 11
        /\ tile_draws[i].src.horizontal_index = u32_from(0)
        /\ tile_draws[i].src.vertical_index = u32_from(1)

\* Every tile the map holds has an id the sheet can address.
MapAddressable ==
    \A key \in DOMAIN map : map[key].tile_id >= tilesheet.first_tile_id

\* C14: a coordinate of the viewport that the map does not hold is no error:
\* the Missing tile, id 10, is drawn there, and the frame's tile drawing
\* completes for every visible entry, for any tile sheet and any map (the
\* empty one too).  Stated for the maps whose own tiles the sheet can
\* address, so that only the absent cells are in question.
C14_MissingCellsDrawn ==
    (tile_draws # << >> /\ MapAddressable)
    => /\ Len(tile_draws) = Len(viewport_tiles)
       /\ ~Panicked(tile_draws)
       /\ \A i \in Passes :
              tile_draws[i].tile \notin DOMAIN map
              => /\ tile_draws[i].src.map_tile
                        = [ tile_id |-> 10, tile_type |-> "Missing" ]
                 /\ tile_draws[i].src.rectangle # << >>

\* The row of the player sprite sheet the claim gives each direction.
ClaimedSpriteRow(dir) ==
    CASE dir = "Down" -> 0
      [] dir = "Left" -> 1
      [] dir = "Right" -> 2
      [] dir = "Up" -> 3

\* Fractions f and g, each << numerator, denominator >>: f + g <= 1.
SumAtMostOne(f, g) == f[1] * g[2] + g[1] * f[2] <= f[2] * g[2]

\* C16: the player's source rectangle starts at (animation index / 10,
\* row / 5) with the rows Down 0, Left 1, Right 2, Up 3, and lies within the
\* unit square, for every direction and every animation index in 0..3.
C16_SpriteRectangle ==
    sprite_draw # NoResult
    => /\ animation_index \in 0..3
       /\ sprite_draw[1] = << animation_index, 10 >>
       /\ sprite_draw[2] = << ClaimedSpriteRow(direction), 5 >>
       /\ SumAtMostOne(sprite_draw[1], sprite_draw[3])
       /\ SumAtMostOne(sprite_draw[2], sprite_draw[4])

\* The player drawn facing up on the last frame of the cycle: (3/10, 3/5).
C16_Witness ==
    /\ sprite_draw # NoResult
    /\ direction = "Up" /\ animation_index = 3
    /\ sprite_draw[1] = << 3, 10 >> /\ sprite_draw[2] = << 3, 5 >>

\* ------------------------------------------------------------------------
\* Claims on the visible-tile list's order (SpecViewport)
\* ------------------------------------------------------------------------

\* The tile coordinates of the entries of a list.
TileCoordinates(tiles) == { << tiles[k][1], tiles[k][2] >> : k \in 1..Len(tiles) }

\* The entries of the list that lie in its first row.
FirstRowLength(tiles) ==
    Cardinality({ k \in 1..Len(tiles) : tiles[k][2] = tiles[1][2] })

\* C18: the list is the row-major enumeration (rows from the top, columns
\* from the left) of a contiguous rectangle of tile coordinates, without
\* duplicates; its first entry is the tile at the snapped origin, the floor
\* of the origin to a tile; every entry's world pixel coordinates are its
\* tile coordinates times TL.
C18_RowMajorRectangle ==
    Drawn =>
        LET tiles == viewport_tiles
            n == Len(tiles)
            w == FirstRowLength(tiles)
        IN  /\ n > 0 /\ w > 0 /\ n % w = 0
            /\ tiles[1][1] = Origin[1] \div TL_PX
            /\ tiles[1][2] = Origin[2] \div TL_PX
            /\ \A k \in 1..n :
                   /\ tiles[k][1] = tiles[1][1] + ((k - 1) % w)
                   /\ tiles[k][2] = tiles[1][2] + ((k - 1) \div w)
                   /\ tiles[k][3] = tiles[k][1] * TL_PX
                   /\ tiles[k][4] = tiles[k][2] * TL_PX
            /\ Cardinality(TileCoordinates(tiles)) = n

\* C18's case: a list that starts left of and above tile (0, 0) and crosses
\* it, with the second row starting under the first entry.
C18_Witness ==
    /\ Drawn
    /\ viewport_tiles[1][1] < 0 /\ viewport_tiles[1][2] < 0
    /\ << 0, 0 >> \in TileCoordinates(viewport_tiles)
    /\ viewport_tiles[FirstRowLength(viewport_tiles) + 1][1] = viewport_tiles[1][1]
    /\ viewport_tiles[FirstRowLength(viewport_tiles) + 1][2] = viewport_tiles[1][2] + 1

\* ------------------------------------------------------------------------
\* Claims on the impulses, the dirty flag and the writes of the three update
\* operations (Spec), and on the velocity a movement step leaves (SpecCoast)
\* ------------------------------------------------------------------------

\* This step is in_game_input with a direction key: try_move_player runs.
ImpulseFires == impulses' = impulses + 1

\* The delta the claim gives an impulse of magnitude 32 in each direction.
ClaimedDelta(dir) ==
    CASE dir = "Up" -> << 0, -32 * Unit >>
      [] dir = "Down" -> << 0, 32 * Unit >>
      [] dir = "Left" -> << -32 * Unit, 0 >>
      [] dir = "Right" -> << 32 * Unit, 0 >>

RECURSIVE SumOfDeltas(_)
SumOfDeltas(dirs) ==
    IF dirs = << >> THEN << 0, 0 >>
    ELSE LET rest == SumOfDeltas(Tail(dirs))
         IN  << ClaimedDelta(Head(dirs))[1] + rest[1],
                ClaimedDelta(Head(dirs))[2] + rest[2] >>

\* C15: an impulse in direction d adds -32 to velocity.y for Up, +32 to
\* velocity.y for Down, -32 to velocity.x for Left, +32 to velocity.x for
\* Right, leaves the other component as it was and sets the direction to d;
\* after any sequence of impulses the direction is the last one pressed and
\* the velocity has changed by the sum of their deltas.
C15_ImpulseAddsDelta ==
    /\ [](/\ velocity = << base[1] + SumOfDeltas(pressed)[1],
                           base[2] + SumOfDeltas(pressed)[2] >>
          /\ pressed # << >> => direction = pressed[Len(pressed)])
    /\ [][ImpulseFires =>
             \E d \in Directions :
                 /\ pressed' = Append(pressed, d)
                 /\ direction' = d
                 /\ velocity' = << velocity[1] + ClaimedDelta(d)[1],
                                   velocity[2] + ClaimedDelta(d)[2] >>
       ]_vars

\* C15's case: Up then Left pressed on a player at rest: the velocity is
\* (-32, -32) and the player faces left.
C15_Witness ==
    /\ pressed = << "Up", "Left" >>
    /\ base = << 0, 0 >>
    /\ velocity = << -32 * Unit, -32 * Unit >>
    /\ direction = "Left"

\* C17: a movement step that changes the Position marks the viewport dirty,
\* and a draw computes the visible-tile list only when the flag is set or on
\* the first frame: a draw for which a list computed for the player's
\* present position exists reuses it.
C17_DirtyFlagAndCache ==
    [][/\ (MoveFires /\ position' # position) => dirty'
       /\ (last_draw'.cached /\ ~dirty') => ~last_draw'.recomputed
      ]_vars

\* C19: right after every movement step each velocity component is 0 or of
\* absolute value in [0.1, 50], so that the step moves the Position by at
\* most 50 on each axis, however many impulses came before.
C19_VelocityBoundAfterStep ==
    [][MoveFires =>
         \A c \in {1, 2} :
             /\ \/ velocity'[c] = 0
                \/ /\ Abs(velocity'[c]) * 10 >= Unit
                   /\ Abs(velocity'[c]) <= 50 * Unit
             /\ Abs(position'[c] - position[c]) <= 50 * Unit
      ]_vars

\* C19's case: the first step after sixteen impulses to the left and
\* sixteen down: the velocity is capped at 50 on both axes and the position
\* has moved by that.
C19_Witness ==
    /\ coast = 1
    /\ base = << -50 * Unit, 50 * Unit >>
    /\ velocity = << -50 * Unit, 50 * Unit >>
    /\ position = << -50 * Unit, 50 * Unit >>

\* C20: an impulse leaves Position and animation_index as they were, a
\* movement step direction and animation_index, an animation step Position,
\* velocity and direction; animation_index is changed by the animation step
\* only and stays in [0, 4), and Position is changed by the movement step
\* only.
C20_DisjointWrites ==
    /\ [](animation_index \in 0..3)
    /\ [][/\ ImpulseFires
              => (position' = position /\ animation_index' = animation_index)
          /\ MoveFires
              => (direction' = direction /\ animation_index' = animation_index)
          /\ AnimFires
              => (position' = position /\ velocity' = velocity
                  /\ direction' = direction)
          /\ animation_index' # animation_index => AnimFires
          /\ position' # position => MoveFires
         ]_vars

\* C20's case: all three operations have written: two impulses pressed, the
\* player moved off the origin and still moving, the animation on frame 2.
C20_Witness ==
    /\ impulses = 2
    /\ position # << 0, 0 >>
    /\ velocity # << 0, 0 >>
    /\ direction # "Down"
    /\ animation_index = 2

\* ------------------------------------------------------------------------
\* Claims on the cover of the screen as in_game_draw places the tiles
\* (SpecViewport)
\* ------------------------------------------------------------------------

\* The entries with their screen position replaced by the corner the draw
\* gives their tile.
PlacedTiles(tiles) ==
    [ i \in DOMAIN tiles |->
          << tiles[i][1], tiles[i][2], tiles[i][3], tiles[i][4],
             tile_corner(tiles[i][5]), tile_corner(tiles[i][6]) >> ]

\* C21: with each tile drawn as the TL x TL square centred on its
\* (screenPxX, screenPxY), that is [x - 16, x + 16) x [y - 16, y + 16), the
\* tiles drawn for any player position cover every pixel of the 960 x 540
\* screen, the bottom and right edges too when the origin is 31 pixels past
\* a tile boundary.
C21_ScreenCoveredCentred ==
    Drawn
    => /\ \A i \in DOMAIN viewport_tiles :
              /\ PlacedTiles(viewport_tiles)[i][5] = viewport_tiles[i][5] - 16
              /\ PlacedTiles(viewport_tiles)[i][6] = viewport_tiles[i][6] - 16
       /\ CoversScreen(PlacedTiles(viewport_tiles))

\* The columns alone: every pixel column of the screen is met by a placed
\* tile (the rows are what falls short).
PlacedColumnsCover ==
    Drawn
    => \A sx \in 0..(WIDTH_PX - 1) :
           \E i \in DOMAIN viewport_tiles :
               /\ tile_corner(viewport_tiles[i][5]) <= sx
               /\ sx < tile_corner(viewport_tiles[i][5]) + TL_PX

====
